---- MODULE Spec2Model ----
(***************************************************************************)
(* Meeting-Summarizer: the command-line back end (cli.py: capture with a   *)
(* ticker thread, transcription, map-reduce summarization, marker framing  *)
(* on standard output) and the front end's reader of that output           *)
(* (gui.py: MeetingSummarizer.handle_stdout).                              *)
(*                                                                         *)
(* Texts are sequences of lexemes.  A lexeme is a transcript character, a  *)
(* whitespace character, one of the marker strings, one diagnostic line,   *)
(* or one whole JSON document.  Standard output is the sequence of the     *)
(* writes made to it, each write a text.                                   *)
(***************************************************************************)
EXTENDS Integers, Sequences, FiniteSets, TLC

VARIABLES
    pc,               \* position of the controlling thread in main
    argc_ok,          \* len(sys.argv) == 3
    api_key,          \* OPENAI_API_KEY is set
    action,           \* sys.argv[1]
    budget,           \* MAX_TOKENS_PER_CHUNK
    transcript,       \* main's transcript (NoneVal until assigned, or on failure)
    tokens,           \* summarize_transcript: tokens still to be chunked
    all_tokens,       \* tokenizer.encode(transcript), kept for reference
    chunks,           \* summarize_transcript: list of chunk texts
    chunk_slices,     \* the chunk_tokens slice of every loop iteration
    i,                \* summarize_transcript: index of the next chunk to map
    chunk_summaries,  \* summarize_transcript: collected map responses
    summary_json,     \* main's summary_json
    requests,         \* remote calls issued so far, with what the adapter returned
    stdout,           \* writes to standard output, in order
    stderr,           \* writes to the error stream, in order
    exit_code,        \* NoExit while running, then the process exit status
    stop_ticker_flag, \* the module-level flag
    ticker_pc,        \* position of the ticker thread
    ticks,            \* ticker lines written (saturates at MaxTicks)
    joined,           \* ticker_thread.join() has returned
    raising,          \* an exception is propagating out of record_audio
    rec_returned,     \* record_audio has returned to main
    delivered,        \* number of stdout writes the front end has read
    output_buffer,    \* MeetingSummarizer.output_buffer
    transcript_edit,  \* text shown in the transcript box
    summary_edit,     \* text shown in the summary box
    err_delivered,    \* number of stderr writes the front end has read
    proc_state,       \* QProcess.state() of MeetingSummarizer.process
    term_sent,        \* process.terminate() was called on the running process
    start_refused,    \* process.start() was called while a process was running
    is_recording,     \* MeetingSummarizer.is_recording
    buttons,          \* which of the three buttons are enabled
    status_label      \* text of the status label

vars == <<pc, argc_ok, api_key, action, budget, transcript, tokens, all_tokens,
          chunks, chunk_slices, i, chunk_summaries, summary_json, requests,
          stdout, stderr, exit_code, stop_ticker_flag, ticker_pc, ticks,
          joined, raising, rec_returned, delivered, output_buffer, transcript_edit,
          summary_edit, err_delivered, proc_state, term_sent, start_refused,
          is_recording, buttons, status_label>>

cliVars == <<pc, argc_ok, api_key, action, budget, transcript, tokens,
             all_tokens, chunks, chunk_slices, i, chunk_summaries,
             summary_json, requests, stdout, stderr, exit_code,
             stop_ticker_flag, ticker_pc, ticks, joined, raising,
             rec_returned>>

sumVars == <<tokens, all_tokens, chunks, chunk_slices, i, chunk_summaries,
             summary_json>>

recVars == <<stop_ticker_flag, ticker_pc, ticks, joined, raising, rec_returned>>

uiVars == <<err_delivered, proc_state, term_sent, start_refused, is_recording,
            buttons, status_label>>

guiVars == <<delivered, output_buffer, transcript_edit, summary_edit, uiVars>>

-----------------------------------------------------------------------------
(* Bounds.  MAX_TOKENS_PER_CHUNK is 8000 in the source; the chunking loop   *)
(* reads it only as the slice length, so it is the variable budget, drawn  *)
(* from 1..MaxBudget, and transcripts are scaled down with it.             *)

MaxTranscriptLen == 3
MaxBudget == 2
MaxTicks == 2

-----------------------------------------------------------------------------
(* Lexemes *)

NoneVal == <<"<None>">>
\* exit_code while the process runs
NoExit == -1
\* exit status of a process ended by SIGTERM
Killed == 143

Chars == {"a", "\n"}
Whitespace == {" ", "\n", "\r"}

MarkTranscript == "TRANSCRIPT:"
MarkJsonStart == "SUMMARY_JSON_START"
MarkJsonEnd == "SUMMARY_JSON_END"

\* JSON documents, one lexeme each.
JFull == "{summary,key_decisions,action_items}"
JEmpty == "{}"
JPartial == "{summary}"
JArray == "[]"
JsonObjects == {JFull, JEmpty, JPartial}
JsonDocs == JsonObjects \cup {JArray}

RECURSIVE SeqsUpTo(_, _)
SeqsUpTo(S, n) ==
    IF n = 0 THEN {<<>>}
    ELSE LET shorter == SeqsUpTo(S, n - 1)
         IN shorter \cup {Append(s, c) : s \in {t \in shorter : Len(t) = n - 1}, c \in S}

\* What the transcription service can answer with.
Transcripts == SeqsUpTo(Chars, MaxTranscriptLen)

-----------------------------------------------------------------------------
(* Python string and list helpers *)

Take(s, n) == SubSeq(s, 1, IF n < Len(s) THEN n ELSE Len(s))
Drop(s, n) == SubSeq(s, (IF n < Len(s) THEN n ELSE Len(s)) + 1, Len(s))

RECURSIVE Flatten(_)
Flatten(ss) == IF ss = <<>> THEN <<>> ELSE Head(ss) \o Flatten(Tail(ss))

RECURSIVE LStrip(_)
LStrip(s) == IF s # <<>> /\ Head(s) \in Whitespace THEN LStrip(Tail(s)) ELSE s

RECURSIVE RStrip(_)
RStrip(s) ==
    IF s # <<>> /\ s[Len(s)] \in Whitespace THEN RStrip(SubSeq(s, 1, Len(s) - 1)) ELSE s

\* str.strip()
Strip(s) == RStrip(LStrip(s))

\* x in s, for a marker x
Contains(s, x) == \E k \in 1..Len(s) : s[k] = x

\* s.find(x): 0-based index of the first occurrence, -1 when there is none
Find(s, x) ==
    IF Contains(s, x)
    THEN (CHOOSE k \in 1..Len(s) : s[k] = x /\ \A j \in 1..(k - 1) : s[j] # x) - 1
    ELSE -1

\* s[lo:hi] for 0 <= lo and 0 <= hi
Slice(s, lo, hi) ==
    LET h == IF hi > Len(s) THEN Len(s) ELSE hi
    IN IF lo >= h THEN <<>> ELSE SubSeq(s, lo + 1, h)

\* truthiness of a str, a list or None
Truthy(v) == v # NoneVal /\ v # <<>>

-----------------------------------------------------------------------------
(* Tokenizer: a byte-pair encoding with the single merge ("a","\n") -> "a\n" *)

RECURSIVE Encode(_)
Encode(text) ==
    IF text = <<>> THEN <<>>
    ELSE IF Len(text) >= 2 /\ text[1] = "a" /\ text[2] = "\n"
         THEN <<"a\n">> \o Encode(SubSeq(text, 3, Len(text)))
         ELSE <<text[1]>> \o Encode(Tail(text))

RECURSIVE Decode(_)
Decode(toks) ==
    IF toks = <<>> THEN <<>>
    ELSE (IF Head(toks) = "a\n" THEN <<"a", "\n">> ELSE <<Head(toks)>>) \o Decode(Tail(toks))

-----------------------------------------------------------------------------
(* Output streams *)

\* print(x): one write of x followed by a newline
Line(x) == x \o <<"\n">>

DiagUploading == "Uploading audio for transcription via API... This may take a moment."
DiagTranscribed == "Transcription successful."
DiagStarting == "Starting summarization process..."
DiagSplitting == "Splitting transcript into chunks..."
DiagSummarizing == "Summarizing chunk(s) of text..."
DiagProcessing == "  - Processing chunk..."
DiagGenerating == "Generating final consolidated summary..."
DiagComplete == "Summarization complete."
DiagRecStart == "Starting recording... Press 'Stop Recording' in the GUI to finish."
DiagRecFinished == "Recording process finished."
DiagTicker == "Recording: mm:ss"

PipelineDiags == {DiagUploading, DiagTranscribed, DiagStarting, DiagSplitting,
                  DiagSummarizing, DiagProcessing, DiagGenerating, DiagComplete}

ErrUsage == "Usage: python cli.py [record|summarize] <filename.mp3>"
ErrNoKey == "Error: OPENAI_API_KEY environment variable not found in .env file."
ErrInvalidAction == "Invalid action. Use 'record' or 'summarize'."
ErrTranscribeApi == "OpenAI API Error during transcription"
ErrTranscribeOther == "An unexpected error occurred during transcription"
ErrSummarizeApi == "OpenAI API Error during summarization"
ErrSummarizeOther == "An unexpected error occurred during summarization"
ErrNoSummaries == "Could not generate summaries for any transcript chunks."
ErrFfmpeg == "An ffmpeg error occurred during recording"
ErrRecordOther == "An unexpected error occurred during recording"
ErrTraceback == "Traceback (most recent call last): KeyboardInterrupt"

-----------------------------------------------------------------------------
(* Remote services: what a call can do *)

Content(t) == [kind |-> "content", text |-> t]
ApiError == [kind |-> "api_error", text |-> <<>>]
OtherError == [kind |-> "exception", text |-> <<>>]

\* client.audio.transcriptions.create, and open(filename) before it
TranscribeOutcomes == {Content(t) : t \in Transcripts} \cup {ApiError, OtherError}

\* client.chat.completions.create for a chunk: message.content, or a failure
\* (OtherError covers any non-API exception, a content of None included)
MapContents == {<<"s1">>, <<" ", "s2", "\n">>, <<" ">>}
MapOutcomes == {Content(t) : t \in MapContents} \cup {ApiError, OtherError}

\* client.chat.completions.create for the synthesis
ReduceContents == {<<JFull>>, <<"\n", JFull, "\n">>, <<JPartial>>, <<JArray>>,
                   <<"Sorry, I cannot">>, <<" ">>}
ReduceOutcomes == {Content(t) : t \in ReduceContents} \cup {ApiError, OtherError}

-----------------------------------------------------------------------------
(* LLM client adapter *)

\* transcribe_audio_with_api: the value returned
TranscribeResult(o) == IF o.kind = "content" THEN o.text ELSE NoneVal

\* transcribe_audio_with_api: what it writes to the error stream
TranscribeErr(o) ==
    IF o.kind = "api_error" THEN <<Line(<<ErrTranscribeApi>>)>>
    ELSE IF o.kind = "exception" THEN <<Line(<<ErrTranscribeOther>>)>>
    ELSE <<>>

\* transcribe_audio_with_api: what it writes to standard output
TranscribeOut(o) ==
    <<Line(<<DiagUploading>>)>>
        \o (IF o.kind = "content" THEN <<Line(<<DiagTranscribed>>)>> ELSE <<>>)

\* the failure value of the structured mode returned in both modes
LLMResponse_AlwaysJson(o, is_json) ==
    IF o.kind = "content" THEN Strip(o.text) ELSE <<JEmpty>>

\* get_llm_response: the value returned
LLMResponse(o, is_json) ==
    IF o.kind = "content" THEN Strip(o.text)
    ELSE IF is_json THEN <<JEmpty>> ELSE <<>>

\* a failure swallowed without a diagnostic
LLMErr_Silent(o) == <<>>

\* get_llm_response: what it writes to the error stream
LLMErr(o) ==
    IF o.kind = "api_error" THEN <<Line(<<ErrSummarizeApi>>)>>
    ELSE IF o.kind = "exception" THEN <<Line(<<ErrSummarizeOther>>)>>
    ELSE <<>>

\* "\n\n---\n\n".join(chunk_summaries)
Separator == "\n\n---\n\n"
RECURSIVE Join(_)
Join(ss) ==
    IF ss = <<>> THEN <<>>
    ELSE IF Len(ss) = 1 THEN ss[1]
    ELSE ss[1] \o <<Separator>> \o Join(Tail(ss))

-----------------------------------------------------------------------------
(* summarize_transcript: the pieces of its loops *)

\* a slice one token too long
ChunkTokens_OffByOne(toks, B) == Take(toks, B + 1)

\* chunk_tokens = tokens[:MAX_TOKENS_PER_CHUNK]
ChunkTokens(toks, B) == Take(toks, B)

\* an advance one token too far
RestTokens_SkipOne(toks, B) == Drop(toks, B + 1)

\* tokens = tokens[MAX_TOKENS_PER_CHUNK:]
RestTokens(toks, B) == Drop(toks, B)

\* the chunks taken from the far end
MapChunk_Reversed(chs, k) == chs[Len(chs) - k + 1]

\* for i, chunk in enumerate(chunks): the chunk of iteration k
MapChunk(chs, k) == chs[k]

\* an empty text in place of the default report
DefaultReport_EmptyText == <<>>

\* return "{}"
DefaultReport == <<JEmpty>>

\* the append without its guard
Collect_Unguarded(summaries, summary) == Append(summaries, summary)

\* if summary: chunk_summaries.append(summary)
Collect(summaries, summary) ==
    IF Truthy(summary) THEN Append(summaries, summary) ELSE summaries

Request(kind, arg, o, result) ==
    [kind |-> kind, arg |-> arg, failed |-> (o.kind # "content"), result |-> result]

-----------------------------------------------------------------------------
(* main: the marker framing *)

\* print(f"TRANSCRIPT:{transcript}\n")
TranscriptBlock(t) == Line(<<MarkTranscript>> \o t \o <<"\n">>)

\* the report block without its end marker
SummaryBlock_NoEnd(j) == Line(<<MarkJsonStart, ":", "\n">> \o j \o <<"\n">>)

\* print(f"SUMMARY_JSON_START:\n{summary_json}\nSUMMARY_JSON_END\n")
SummaryBlock(j) == Line(<<MarkJsonStart, ":", "\n">> \o j \o <<"\n", MarkJsonEnd, "\n">>)

-----------------------------------------------------------------------------
(* Front end: buttons and status label *)

StatusIdle == "Status: Idle"
StatusRecording == "Status: Recording..."
StatusStopping == "Status: Stopping recording..."
StatusSummarizing == "Status: Summarizing audio file... This may take a moment."
StatusError == "Status: An error occurred."

\* the start button left enabled while a process runs
UiState_StartStaysOn(is_running, recording) ==
    [start |-> TRUE, summarize |-> ~is_running, stop |-> is_running /\ recording]

\* update_ui_state(is_running), with self.is_recording as it is at the call
UiState(is_running, recording) ==
    [start |-> ~is_running, summarize |-> ~is_running, stop |-> is_running /\ recording]

\* the front end right after it has spawned the process with argv[1] = a
UiAfterSpawn(a) ==
    /\ err_delivered = 0
    /\ proc_state = "Running"
    /\ term_sent = FALSE
    /\ start_refused = FALSE
    /\ is_recording = (a = "record")
    /\ buttons = UiState(TRUE, a = "record")
    /\ status_label = IF a = "record" THEN StatusRecording ELSE StatusSummarizing

-----------------------------------------------------------------------------
(* The state after the process is spawned *)

Init ==
    /\ pc = "main"
    /\ argc_ok \in BOOLEAN
    /\ api_key \in BOOLEAN
    /\ action \in {"record", "summarize", "other"}
    /\ budget \in 1..MaxBudget
    /\ transcript = NoneVal
    /\ tokens = <<>>
    /\ all_tokens = <<>>
    /\ chunks = <<>>
    /\ chunk_slices = <<>>
    /\ i = 1
    /\ chunk_summaries = <<>>
    /\ summary_json = NoneVal
    /\ requests = <<>>
    /\ stdout = <<>>
    /\ stderr = <<>>
    /\ exit_code = NoExit
    /\ stop_ticker_flag = FALSE
    /\ ticker_pc = "not_started"
    /\ ticks = 0
    /\ joined = FALSE
    /\ raising = FALSE
    /\ rec_returned = FALSE
    /\ delivered = 0
    /\ output_buffer = <<>>
    /\ transcript_edit = <<>>
    /\ summary_edit = <<>>
    /\ UiAfterSpawn(action)

-----------------------------------------------------------------------------
(* main *)

\* a check that never finds the key missing
KeyMissing_Never(k) == FALSE

\* if not api_key
KeyMissing(k) == ~k

\* a test for None alone
HasTranscript_NotNone(t) == t # NoneVal

\* if transcript
HasTranscript(t) == Truthy(t)

MainUsage ==
    /\ pc = "main"
    /\ ~argc_ok
    /\ stderr' = Append(stderr, Line(<<ErrUsage>>))
    /\ exit_code' = 1
    /\ pc' = "exited"
    /\ UNCHANGED <<argc_ok, api_key, action, budget, transcript, sumVars,
                   requests, stdout, recVars, guiVars>>

MainNoKey ==
    /\ pc = "main"
    /\ argc_ok
    /\ KeyMissing(api_key)
    /\ stderr' = Append(stderr, Line(<<ErrNoKey>>))
    /\ exit_code' = 1
    /\ pc' = "exited"
    /\ UNCHANGED <<argc_ok, api_key, action, budget, transcript, sumVars,
                   requests, stdout, recVars, guiVars>>

MainRecord ==
    /\ pc = "main"
    /\ argc_ok
    /\ ~KeyMissing(api_key)
    /\ action = "record"
    /\ pc' = "rec_init"
    /\ UNCHANGED <<argc_ok, api_key, action, budget, transcript, sumVars,
                   requests, stdout, stderr, exit_code, recVars, guiVars>>

MainSummarize ==
    /\ pc = "main"
    /\ argc_ok
    /\ ~KeyMissing(api_key)
    /\ action = "summarize"
    /\ pc' = "transcribe"
    /\ UNCHANGED <<argc_ok, api_key, action, budget, transcript, sumVars,
                   requests, stdout, stderr, exit_code, recVars, guiVars>>

MainInvalidAction ==
    /\ pc = "main"
    /\ argc_ok
    /\ ~KeyMissing(api_key)
    /\ action \notin {"record", "summarize"}
    /\ stderr' = Append(stderr, Line(<<ErrInvalidAction>>))
    /\ exit_code' = 1
    /\ pc' = "exited"
    /\ UNCHANGED <<argc_ok, api_key, action, budget, transcript, sumVars,
                   requests, stdout, recVars, guiVars>>

\* transcript = transcribe_audio_with_api(filename, client)
Transcribe ==
    /\ pc = "transcribe"
    /\ \E o \in TranscribeOutcomes :
        /\ transcript' = TranscribeResult(o)
        /\ stdout' = stdout \o TranscribeOut(o)
        /\ stderr' = stderr \o TranscribeErr(o)
        /\ requests' = Append(requests, Request("transcribe", <<>>, o, TranscribeResult(o)))
    /\ pc' = "check_transcript"
    /\ UNCHANGED <<argc_ok, api_key, action, budget, sumVars, exit_code,
                   recVars, guiVars>>

\* if transcript: ... ; otherwise main falls off its end
MainCheckTranscript ==
    /\ pc = "check_transcript"
    /\ IF HasTranscript(transcript)
       THEN /\ pc' = "summarize"
            /\ UNCHANGED exit_code
       ELSE /\ pc' = "exited"
            /\ exit_code' = 0
    /\ UNCHANGED <<argc_ok, api_key, action, budget, transcript, sumVars,
                   requests, stdout, stderr, recVars, guiVars>>

-----------------------------------------------------------------------------
(* summarize_transcript *)

\* tokens = tokenizer.encode(transcript); chunks = []
SummarizeStart ==
    /\ pc = "summarize"
    /\ stdout' = stdout \o <<Line(<<DiagStarting>>), Line(<<DiagSplitting>>)>>
    /\ tokens' = Encode(transcript)
    /\ all_tokens' = Encode(transcript)
    /\ chunks' = <<>>
    /\ chunk_slices' = <<>>
    /\ pc' = "chunking"
    /\ UNCHANGED <<argc_ok, api_key, action, budget, transcript, i,
                   chunk_summaries, summary_json, requests, stderr, exit_code,
                   recVars, guiVars>>

\* one iteration of: while tokens
ChunkStep ==
    /\ pc = "chunking"
    /\ tokens # <<>>
    /\ LET chunk_tokens == ChunkTokens(tokens, budget)
       IN /\ chunks' = Append(chunks, Decode(chunk_tokens))
          /\ chunk_slices' = Append(chunk_slices, chunk_tokens)
    /\ tokens' = RestTokens(tokens, budget)
    /\ UNCHANGED <<pc, argc_ok, api_key, action, budget, transcript, all_tokens,
                   i, chunk_summaries, summary_json, requests, stdout, stderr,
                   exit_code, recVars, guiVars>>

\* the while loop ends; chunk_summaries = []
ChunkDone ==
    /\ pc = "chunking"
    /\ tokens = <<>>
    /\ chunk_summaries' = <<>>
    /\ i' = 1
    /\ stdout' = Append(stdout, Line(<<DiagSummarizing>>))
    /\ pc' = "mapping"
    /\ UNCHANGED <<argc_ok, api_key, action, budget, transcript, tokens,
                   all_tokens, chunks, chunk_slices, summary_json, requests,
                   stderr, exit_code, recVars, guiVars>>

\* one iteration of: for i, chunk in enumerate(chunks)
MapStep ==
    /\ pc = "mapping"
    /\ i <= Len(chunks)
    /\ \E o \in MapOutcomes :
        LET summary == LLMResponse(o, FALSE)
        IN /\ stderr' = stderr \o LLMErr(o)
           /\ requests' = Append(requests, Request("map", MapChunk(chunks, i), o, summary))
           /\ chunk_summaries' = Collect(chunk_summaries, summary)
    /\ stdout' = Append(stdout, Line(<<DiagProcessing>>))
    /\ i' = i + 1
    /\ UNCHANGED <<pc, argc_ok, api_key, action, budget, transcript, tokens,
                   all_tokens, chunks, chunk_slices, summary_json, exit_code,
                   recVars, guiVars>>

\* if not chunk_summaries: return "{}"
ReduceShortCircuit ==
    /\ pc = "mapping"
    /\ i > Len(chunks)
    /\ ~Truthy(chunk_summaries)
    /\ stderr' = Append(stderr, Line(<<ErrNoSummaries>>))
    /\ summary_json' = DefaultReport
    /\ pc' = "emit_transcript"
    /\ UNCHANGED <<argc_ok, api_key, action, budget, transcript, tokens,
                   all_tokens, chunks, chunk_slices, i, chunk_summaries,
                   requests, stdout, exit_code, recVars, guiVars>>

\* final_summary_json = get_llm_response(reduce_prompt, client, is_json=True)
Reduce ==
    /\ pc = "mapping"
    /\ i > Len(chunks)
    /\ Truthy(chunk_summaries)
    /\ \E o \in ReduceOutcomes :
        LET final_summary_json == LLMResponse(o, TRUE)
        IN /\ stderr' = stderr \o LLMErr(o)
           /\ requests' = Append(requests,
                  Request("reduce", Join(chunk_summaries), o, final_summary_json))
           /\ summary_json' = final_summary_json
    /\ stdout' = stdout \o <<Line(<<DiagGenerating>>), Line(<<DiagComplete>>)>>
    /\ pc' = "emit_transcript"
    /\ UNCHANGED <<argc_ok, api_key, action, budget, transcript, tokens,
                   all_tokens, chunks, chunk_slices, i, chunk_summaries,
                   exit_code, recVars, guiVars>>

-----------------------------------------------------------------------------
(* main: emitting the two blocks *)

EmitTranscript ==
    /\ pc = "emit_transcript"
    /\ stdout' = Append(stdout, TranscriptBlock(transcript))
    /\ pc' = "emit_summary"
    /\ UNCHANGED <<argc_ok, api_key, action, budget, transcript, sumVars,
                   requests, stderr, exit_code, recVars, guiVars>>

EmitSummary ==
    /\ pc = "emit_summary"
    /\ stdout' = Append(stdout, SummaryBlock(summary_json))
    /\ pc' = "exited"
    /\ exit_code' = 0
    /\ UNCHANGED <<argc_ok, api_key, action, budget, transcript, sumVars,
                   requests, stderr, recVars, guiVars>>

-----------------------------------------------------------------------------
(* record_audio and the ticker thread *)

\* what ffmpeg.run can do while the controlling thread waits in it
CaptureOutcomes == {"ok", "ffmpeg_error", "exception", "keyboard_interrupt"}

\* the flag raised where it is to be lowered
FlagAtStart_Set == TRUE

\* stop_ticker_flag = False, before the thread is started
FlagAtStart == FALSE

\* a loop test that never sees the flag
TickerSeesStop_Never(flag) == FALSE

\* while not stop_ticker_flag: the loop ends when the flag is read as set
TickerSeesStop(flag) == flag

\* a return that does not wait for the thread
JoinReturns_NoWait(tpc) == TRUE

\* ticker_thread.join() returns once the thread has terminated
JoinReturns(tpc) == tpc = "done"

\* stop_ticker_flag = False
RecInit ==
    /\ pc = "rec_init"
    /\ stop_ticker_flag' = FlagAtStart
    /\ pc' = "rec_start_thread"
    /\ UNCHANGED <<argc_ok, api_key, action, budget, transcript, sumVars,
                   requests, stdout, stderr, exit_code, ticker_pc, ticks,
                   joined, raising, rec_returned, guiVars>>

\* ticker_thread = threading.Thread(target=display_ticker); ticker_thread.start()
RecStartThread ==
    /\ pc = "rec_start_thread"
    /\ ticker_pc' = "check"
    /\ pc' = "rec_announce"
    /\ UNCHANGED <<argc_ok, api_key, action, budget, transcript, sumVars,
                   requests, stdout, stderr, exit_code, stop_ticker_flag, ticks,
                   joined, raising, rec_returned, guiVars>>

RecAnnounce ==
    /\ pc = "rec_announce"
    /\ stdout' = Append(stdout, Line(<<DiagRecStart>>))
    /\ pc' = "rec_capture"
    /\ UNCHANGED <<argc_ok, api_key, action, budget, transcript, sumVars,
                   requests, stderr, exit_code, recVars, guiVars>>

\* the try block and its except clauses
RecCapture ==
    /\ pc = "rec_capture"
    /\ \E o \in CaptureOutcomes :
        /\ stderr' = IF o = "ffmpeg_error" THEN Append(stderr, Line(<<ErrFfmpeg>>))
                     ELSE IF o = "exception" THEN Append(stderr, Line(<<ErrRecordOther>>))
                     ELSE stderr
        /\ raising' = (o = "keyboard_interrupt")
    /\ pc' = "rec_finally"
    /\ UNCHANGED <<argc_ok, api_key, action, budget, transcript, sumVars,
                   requests, stdout, exit_code, stop_ticker_flag, ticker_pc,
                   ticks, joined, rec_returned, guiVars>>

\* SIGTERM (the front end's process.terminate()) while waiting in ffmpeg.run:
\* no handler is installed, the process ends at once
RecSigterm ==
    /\ pc = "rec_capture"
    /\ pc' = "exited"
    /\ exit_code' = Killed
    /\ ticker_pc' = "killed"
    /\ UNCHANGED <<argc_ok, api_key, action, budget, transcript, sumVars,
                   requests, stdout, stderr, stop_ticker_flag, ticks, joined,
                   raising, rec_returned, guiVars>>

\* finally: stop_ticker_flag = True
RecFinallySetFlag ==
    /\ pc = "rec_finally"
    /\ stop_ticker_flag' = TRUE
    /\ pc' = "rec_join"
    /\ UNCHANGED <<argc_ok, api_key, action, budget, transcript, sumVars,
                   requests, stdout, stderr, exit_code, ticker_pc, ticks,
                   joined, raising, rec_returned, guiVars>>

\* finally: ticker_thread.join()
RecJoin ==
    /\ pc = "rec_join"
    /\ JoinReturns(ticker_pc)
    /\ joined' = TRUE
    /\ pc' = "rec_finished"
    /\ UNCHANGED <<argc_ok, api_key, action, budget, transcript, sumVars,
                   requests, stdout, stderr, exit_code, stop_ticker_flag,
                   ticker_pc, ticks, raising, rec_returned, guiVars>>

\* finally: print("\nRecording process finished."); then record_audio returns
\* and main ends, or the pending KeyboardInterrupt ends the process
RecFinish ==
    /\ pc = "rec_finished"
    /\ stdout' = Append(stdout, Line(<<"\n", DiagRecFinished>>))
    /\ IF raising
       THEN /\ stderr' = Append(stderr, Line(<<ErrTraceback>>))
            /\ exit_code' = 1
            /\ UNCHANGED rec_returned
       ELSE /\ rec_returned' = TRUE
            /\ exit_code' = 0
            /\ UNCHANGED stderr
    /\ pc' = "exited"
    /\ UNCHANGED <<argc_ok, api_key, action, budget, transcript, sumVars,
                   requests, stop_ticker_flag, ticker_pc, ticks, joined,
                   raising, guiVars>>

\* display_ticker: while not stop_ticker_flag
TickerCheck ==
    /\ ticker_pc = "check"
    /\ ticker_pc' = IF TickerSeesStop(stop_ticker_flag) THEN "done" ELSE "write"
    /\ UNCHANGED <<pc, argc_ok, api_key, action, budget, transcript, sumVars,
                   requests, stdout, stderr, exit_code, stop_ticker_flag, ticks,
                   joined, raising, rec_returned, guiVars>>

\* display_ticker: sys.stdout.write(...); sys.stdout.flush()
\* (writes past MaxTicks are not recorded)
TickerWrite ==
    /\ ticker_pc = "write"
    /\ IF ticks < MaxTicks
       THEN /\ stdout' = Append(stdout, <<"\r", DiagTicker>>)
            /\ ticks' = ticks + 1
       ELSE UNCHANGED <<stdout, ticks>>
    /\ ticker_pc' = "sleep"
    /\ UNCHANGED <<pc, argc_ok, api_key, action, budget, transcript, sumVars,
                   requests, stderr, exit_code, stop_ticker_flag, joined,
                   raising, rec_returned, guiVars>>

\* display_ticker: time.sleep(1)
TickerSleep ==
    /\ ticker_pc = "sleep"
    /\ ticker_pc' = "check"
    /\ UNCHANGED <<pc, argc_ok, api_key, action, budget, transcript, sumVars,
                   requests, stdout, stderr, exit_code, stop_ticker_flag, ticks,
                   joined, raising, rec_returned, guiVars>>

-----------------------------------------------------------------------------
(* Front end: MeetingSummarizer.handle_stdout *)

\* json.loads accepts exactly one JSON document, whitespace around it allowed
CanLoad(s) == Len(Strip(s)) = 1 /\ Strip(s)[1] \in JsonDocs
Loaded(s) == Strip(s)[1]

\* output_buffer[transcript_start:transcript_end].strip()
ExtractTranscript(buf) ==
    Strip(Slice(buf, Find(buf, MarkTranscript) + 1, Find(buf, MarkJsonStart)))

\* output_buffer[json_start:json_end].strip(); len("SUMMARY_JSON_START") is one
\* lexeme, the colon after it is the next
ExtractJson(buf) ==
    Strip(Slice(buf, Find(buf, MarkJsonStart) + 1, Find(buf, MarkJsonEnd)))

ShownParseError == <<"Error parsing summary output">>
ShownUnexpected == <<"An unexpected error occurred">>

\* display_summary: data.get(key, default) for each of the three keys
DisplaySummary(doc) ==
    <<"### Meeting Summary ###",
      IF doc = JEmpty THEN "No summary provided." ELSE "<summary>",
      "### Key Decisions ###",
      IF doc = JFull THEN "<key_decisions>" ELSE "No key decisions were identified.",
      "### Action Items ###",
      IF doc = JFull THEN "<action_items>" ELSE "No action items were identified.">>

\* the try block of handle_stdout, after the transcript box is set
SummaryShown(buf) ==
    IF ~CanLoad(ExtractJson(buf)) THEN ShownParseError
    ELSE IF Loaded(ExtractJson(buf)) \notin JsonObjects THEN ShownUnexpected
    ELSE DisplaySummary(Loaded(ExtractJson(buf)))

\* readyReadStandardOutput: some of the writes not yet read arrive
HandleStdout ==
    /\ delivered < Len(stdout)
    /\ \E n \in (delivered + 1)..Len(stdout) :
        LET data == Flatten(SubSeq(stdout, delivered + 1, n))
            buf == output_buffer \o data
        IN /\ delivered' = n
           /\ output_buffer' = buf
           /\ IF Contains(buf, MarkJsonStart) /\ Contains(buf, MarkJsonEnd)
              THEN /\ transcript_edit' = ExtractTranscript(buf)
                   /\ summary_edit' = SummaryShown(buf)
              ELSE UNCHANGED <<transcript_edit, summary_edit>>
    /\ UNCHANGED <<cliVars, uiVars>>

-----------------------------------------------------------------------------

Next ==
    \/ MainUsage
    \/ MainNoKey
    \/ MainRecord
    \/ MainSummarize
    \/ MainInvalidAction
    \/ Transcribe
    \/ MainCheckTranscript
    \/ SummarizeStart
    \/ ChunkStep
    \/ ChunkDone
    \/ MapStep
    \/ ReduceShortCircuit
    \/ Reduce
    \/ EmitTranscript
    \/ EmitSummary
    \/ RecInit
    \/ RecStartThread
    \/ RecAnnounce
    \/ RecCapture
    \/ RecSigterm
    \/ RecFinallySetFlag
    \/ RecJoin
    \/ RecFinish
    \/ TickerCheck
    \/ TickerWrite
    \/ TickerSleep
    \/ HandleStdout

Spec == Init /\ [][Next]_vars

-----------------------------------------------------------------------------
(* Helpers for the properties *)

IsMap(r) == r.kind = "map"
IsReduce(r) == r.kind = "reduce"
IsTranscribe(r) == r.kind = "transcribe"
MapRequests == SelectSeq(requests, IsMap)
ReduceRequests == SelectSeq(requests, IsReduce)

RECURSIVE ResultsOf(_)
ResultsOf(rs) == IF rs = <<>> THEN <<>> ELSE <<Head(rs).result>> \o ResultsOf(Tail(rs))

NonEmptyText(t) == t # <<>>

\* number of occurrences of lexeme x in text s
Count(s, x) == Cardinality({k \in 1..Len(s) : s[k] = x})

\* the chunking loop has finished
ChunkingDone ==
    /\ action = "summarize"
    /\ \/ pc \in {"mapping", "emit_transcript", "emit_summary"}
       \/ pc = "exited" /\ summary_json # NoneVal

\* a summarize run that got a transcript and has ended
SummarizeEnded == pc = "exited" /\ action = "summarize" /\ summary_json # NoneVal

\* a report as the schema of the structured report has it: the three keys, or
\* the empty object the program uses as the default report
ValidReport(t) == CanLoad(t) /\ Loaded(t) \in {JFull, JEmpty}

-----------------------------------------------------------------------------
(* C1: every chunk the chunking loop produces holds at most budget tokens, *)
(* at every point of the loop and for every transcript and budget.         *)
C1_ChunkWithinBudget ==
    \A k \in 1..Len(chunk_slices) :
        /\ Len(chunk_slices[k]) <= budget
        /\ chunks[k] = Decode(chunk_slices[k])

\* three tokens cut with a budget of two: a full chunk and a rest
C1_Witness ==
    /\ pc = "mapping"
    /\ budget = 2
    /\ Len(all_tokens) = 3
    /\ Len(chunk_slices) = 2
    /\ Len(chunk_slices[1]) = 2

(* C2: the token slices of the chunks, concatenated in the order produced, *)
(* are the token sequence of the transcript: during the loop together with *)
(* the tokens still to be cut, after it on their own.                      *)
C2_ChunksReassemble ==
    /\ Flatten(chunk_slices) \o tokens = all_tokens
    /\ ChunkingDone => Flatten(chunk_slices) = Encode(transcript)

\* several chunks of a transcript whose tokens differ
C2_Witness ==
    /\ pc = "mapping"
    /\ Len(chunk_slices) >= 2
    /\ \E j, k \in 1..Len(all_tokens) : all_tokens[j] # all_tokens[k]

(* C3: the chunk summaries are exactly the non-empty map responses in      *)
(* chunk order; every chunk gets its map call whatever the earlier calls   *)
(* did, and the reduce request is built from exactly those summaries.      *)
C3_SummariesAreNonEmptyResponses ==
    /\ chunk_summaries = SelectSeq(ResultsOf(MapRequests), NonEmptyText)
    /\ \A k \in 1..Len(MapRequests) : MapRequests[k].arg = chunks[k]
    /\ ChunkingDone /\ pc # "mapping" => Len(MapRequests) = Len(chunks)
    /\ \A k \in 1..Len(ReduceRequests) :
        /\ Len(MapRequests) = Len(chunks)
        /\ ReduceRequests[k].arg = Join(SelectSeq(ResultsOf(MapRequests), NonEmptyText))

\* a reduce request after a failed first call, and two different summaries
C3_Witness ==
    /\ Len(ReduceRequests) = 1
    /\ Len(MapRequests) = 3
    /\ MapRequests[1].failed
    /\ Len(chunk_summaries) = 2
    /\ chunk_summaries[1] # chunk_summaries[2]

(* C4: every report summarize_transcript returns is valid against the      *)
(* three-field schema of the structured report.                            *)
C4_ReportValid ==
    summary_json # NoneVal => ValidReport(summary_json)

(* C5: every report summarize_transcript returns is a syntactically valid  *)
(* serialized document, whatever text the reduce call answered with.       *)
C5_ReportParses ==
    summary_json # NoneVal => CanLoad(summary_json)

-----------------------------------------------------------------------------
\* standard output as the reader sees it: one text
Stream == Flatten(stdout)

\* 1-based position of the first occurrence of lexeme x in s, 0 when absent
Pos(s, x) == Find(s, x) + 1

(* C6: on a summarize run that got a transcript, standard output carries   *)
(* each of the three markers at most once while the run lasts and exactly  *)
(* once when it has ended, in the order TRANSCRIPT:, SUMMARY_JSON_START:,  *)
(* SUMMARY_JSON_END, and no diagnostic line of the pipeline follows the    *)
(* TRANSCRIPT: marker.                                                     *)
C6_MarkersOnceInOrder ==
    LET s == Stream
        t == Pos(s, MarkTranscript)
        b == Pos(s, MarkJsonStart)
        e == Pos(s, MarkJsonEnd)
    IN /\ Count(s, MarkTranscript) <= 1
       /\ Count(s, MarkJsonStart) <= 1
       /\ Count(s, MarkJsonEnd) <= 1
       /\ b > 0 => (t > 0 /\ t < b /\ s[b + 1] = ":")
       /\ e > 0 => (b > 0 /\ b < e)
       /\ t > 0 => \A k \in (t + 1)..Len(s) : s[k] \notin PipelineDiags
       /\ SummarizeEnded => (t > 0 /\ b > 0 /\ e > 0 /\ exit_code = 0)

\* an ended run with diagnostics of the map and the reduce step before the blocks
C6_Witness ==
    /\ SummarizeEnded
    /\ Len(ReduceRequests) = 1
    /\ Count(Stream, DiagComplete) = 1
    /\ Count(Stream, MarkJsonEnd) = 1

(* C7: once the whole framing of an ended summarize run is in the front    *)
(* end's buffer, the transcript box holds the emitted transcript (up to    *)
(* surrounding whitespace) and the text taken between the JSON markers     *)
(* deserializes to the emitted report, whenever that report deserializes.  *)
C7_FrontEndExtracts ==
    (SummarizeEnded /\ delivered = Len(stdout) /\ CanLoad(summary_json)) =>
        /\ transcript_edit = Strip(transcript)
        /\ CanLoad(ExtractJson(output_buffer))
        /\ Loaded(ExtractJson(output_buffer)) = Loaded(summary_json)

(* C8: when the transcription call fails, the session writes a diagnostic  *)
(* to the error stream, writes no marker, issues no summarization request  *)
(* and ends with a non-zero status.                                        *)
C8_TranscriptionFailureExitsNonZero ==
    (pc = "exited" /\ \E k \in 1..Len(requests) :
                          IsTranscribe(requests[k]) /\ requests[k].failed) =>
        /\ stderr # <<>>
        /\ Count(Stream, MarkTranscript) = 0
        /\ Count(Stream, MarkJsonStart) = 0
        /\ Count(Stream, MarkJsonEnd) = 0
        /\ MapRequests = <<>>
        /\ ReduceRequests = <<>>
        /\ exit_code # 0

(* C9: whenever control leaves record_audio (by return after a normal or a *)
(* failed capture, or with an exception passing through the finally        *)
(* block), the stop flag is set and the ticker thread has terminated and   *)
(* has been joined.                                                        *)
C9_TickerJoinedBeforeReturn ==
    (rec_returned \/ (pc = "exited" /\ raising)) =>
        /\ stop_ticker_flag
        /\ ticker_pc = "done"
        /\ joined

\* a return after a failed capture during which the ticker had written
C9_Witness ==
    /\ rec_returned
    /\ ticks >= 1
    /\ stderr # <<>>

(* C10: a summarize run with a non-empty transcript whose map calls all    *)
(* fail ends with status 0, its last two writes being the transcript block *)
(* with the whole transcript and the report block with the default report. *)
C10_PartialSuccess ==
    (/\ pc = "exited"
     /\ action = "summarize"
     /\ Truthy(transcript)
     /\ \A k \in 1..Len(MapRequests) : MapRequests[k].failed) =>
        /\ exit_code = 0
        /\ Len(stdout) >= 2
        /\ stdout[Len(stdout) - 1] = <<MarkTranscript>> \o transcript \o <<"\n", "\n">>
        /\ stdout[Len(stdout)] =
               <<MarkJsonStart, ":", "\n", JEmpty, "\n", MarkJsonEnd, "\n", "\n">>
        /\ ReduceRequests = <<>>

\* two chunks, both map calls failed in different ways
C10_Witness ==
    /\ pc = "exited"
    /\ Truthy(transcript)
    /\ Len(MapRequests) = 2
    /\ MapRequests[1].failed
    /\ MapRequests[2].failed
    /\ Len(stderr) = 3
    /\ stderr[1] # stderr[2]

-----------------------------------------------------------------------------
(* summarize_transcript on its own: called with any transcript, the empty  *)
(* one included, and followed until it returns (pc = "emit_transcript").   *)

InitSummarize ==
    /\ pc = "summarize"
    /\ argc_ok = TRUE
    /\ api_key = TRUE
    /\ action = "summarize"
    /\ budget \in 1..MaxBudget
    /\ transcript \in Transcripts
    /\ tokens = <<>>
    /\ all_tokens = <<>>
    /\ chunks = <<>>
    /\ chunk_slices = <<>>
    /\ i = 1
    /\ chunk_summaries = <<>>
    /\ summary_json = NoneVal
    /\ requests = <<>>
    /\ stdout = <<>>
    /\ stderr = <<>>
    /\ exit_code = NoExit
    /\ stop_ticker_flag = FALSE
    /\ ticker_pc = "not_started"
    /\ ticks = 0
    /\ joined = FALSE
    /\ raising = FALSE
    /\ rec_returned = FALSE
    /\ delivered = 0
    /\ output_buffer = <<>>
    /\ transcript_edit = <<>>
    /\ summary_edit = <<>>
    /\ UiAfterSpawn(action)

NextSummarize ==
    \/ SummarizeStart
    \/ ChunkStep
    \/ ChunkDone
    \/ MapStep
    \/ ReduceShortCircuit
    \/ Reduce

SpecSummarize == InitSummarize /\ [][NextSummarize]_vars

\* summarize_transcript has returned
SummarizeReturned == ChunkingDone /\ pc # "mapping"

(* C11: one map request per chunk, in chunk order, none before its turn;   *)
(* on return one reduce request if some map response was non-empty and     *)
(* none otherwise, and the reduce request is the last request issued.      *)
C11_OneMapPerChunkThenOneReduce ==
    /\ Len(MapRequests) <= Len(chunks)
    /\ \A k \in 1..Len(MapRequests) : MapRequests[k].arg = chunks[k]
    /\ pc = "mapping" => (Len(MapRequests) = i - 1 /\ ReduceRequests = <<>>)
    /\ SummarizeReturned =>
        /\ Len(MapRequests) = Len(chunks)
        /\ Len(ReduceRequests) =
               IF \E k \in 1..Len(MapRequests) : MapRequests[k].result # <<>>
               THEN 1 ELSE 0
        /\ ReduceRequests # <<>> => IsReduce(requests[Len(requests)])

\* three chunks: three map requests, then the reduce request
C11_Witness ==
    /\ SummarizeReturned
    /\ Len(chunks) = 3
    /\ Len(requests) = 4
    /\ IsMap(requests[3])
    /\ IsReduce(requests[4])
    /\ chunks[1] # chunks[3]

(* C12: N tokens cut with budget B give ceil(N/B) chunks, all but the last *)
(* of exactly B tokens, the last of the N - (ceil(N/B)-1)*B that remain;   *)
(* there is no chunk exactly when the transcript is empty.                 *)
C12_ChunkCountAndSizes ==
    ChunkingDone =>
        LET N == Len(Encode(transcript))
            B == budget
            n == Len(chunk_slices)
        IN /\ n = (N + B - 1) \div B
           /\ Len(chunks) = n
           /\ \A k \in 1..(n - 1) : Len(chunk_slices[k]) = B
           /\ n > 0 => Len(chunk_slices[n]) = N - (n - 1) * B
           /\ (n = 0) <=> (transcript = <<>>)

\* three tokens with a budget of two: chunks of two and one
C12_Witness ==
    /\ pc = "emit_transcript"
    /\ Len(Encode(transcript)) = 3
    /\ budget = 2
    /\ Len(chunk_slices[1]) = 2
    /\ Len(chunk_slices[2]) = 1

(* C13: when summarize_transcript returns with no chunk summary collected  *)
(* (no chunk, or every map call failed or answered nothing), it has issued *)
(* no reduce request, its last write to the error stream is the failure    *)
(* diagnostic, and it has returned the default report.                     *)
C13_NoSummariesShortCircuit ==
    (/\ SummarizeReturned
     /\ \/ chunk_summaries = <<>>
        \/ \A k \in 1..Len(MapRequests) :
               MapRequests[k].failed \/ MapRequests[k].result = <<>>) =>
        /\ ReduceRequests = <<>>
        /\ stderr # <<>>
        /\ stderr[Len(stderr)] = <<ErrNoSummaries, "\n">>
        /\ summary_json = <<JEmpty>>

\* one map call failed, the other answered only whitespace
C13_Witness ==
    /\ pc = "emit_transcript"
    /\ Len(MapRequests) = 2
    /\ MapRequests[1].failed
    /\ ~MapRequests[2].failed
    /\ chunk_summaries = <<>>

-----------------------------------------------------------------------------
\* the diagnostics of the capture's except clauses
CaptureFailed ==
    \E k \in 1..Len(stderr) :
        stderr[k] \in {<<ErrFfmpeg, "\n">>, <<ErrRecordOther, "\n">>}

(* C14: a record run ends with status 0 when the capture stopped normally  *)
(* and with a non-zero status, after a diagnostic on the error stream,     *)
(* when the capture failed.                                                *)
C14_RecordExitStatus ==
    (pc = "exited" /\ action = "record" /\ rec_returned) =>
        /\ ~CaptureFailed => exit_code = 0
        /\ CaptureFailed => (exit_code # 0 /\ stderr # <<>>)

(* C15: with the credential absent the process starts no capture, issues   *)
(* no remote call and writes nothing to standard output, and it ends with  *)
(* status 1 after one diagnostic (the usage line if the arguments are      *)
(* wrong as well, the missing-key line otherwise).                         *)
C15_NoKeyFailsFast ==
    ~api_key =>
        /\ pc \in {"main", "exited"}
        /\ requests = <<>>
        /\ stdout = <<>>
        /\ ticker_pc = "not_started"
        /\ pc = "exited" =>
            /\ exit_code = 1
            /\ Len(stderr) = 1
            /\ argc_ok => stderr[1] = <<ErrNoKey, "\n">>

\* a record invocation stopped by the missing key
C15_Witness ==
    /\ pc = "exited"
    /\ ~api_key
    /\ argc_ok
    /\ action = "record"
    /\ stderr = <<<<ErrNoKey, "\n">>>>

AdapterDiags == {<<ErrTranscribeApi, "\n">>, <<ErrTranscribeOther, "\n">>,
                 <<ErrSummarizeApi, "\n">>, <<ErrSummarizeOther, "\n">>}

(* C16: every failed remote call has given its caller the default value of *)
(* its kind (None for the transcription, "" for a map call, "{}" for the   *)
(* reduce call), has written exactly one diagnostic to the error stream,   *)
(* and has not ended the process.                                          *)
C16_AdapterContainsFailures ==
    /\ \A k \in 1..Len(requests) :
        requests[k].failed =>
            requests[k].result =
                IF IsTranscribe(requests[k]) THEN NoneVal
                ELSE IF IsMap(requests[k]) THEN <<>>
                ELSE <<JEmpty>>
    /\ Cardinality({k \in 1..Len(stderr) : stderr[k] \in AdapterDiags})
           = Cardinality({k \in 1..Len(requests) : requests[k].failed})
    /\ requests # <<>> => exit_code \in {NoExit, 0}

\* failed map calls of both kinds, then a failed reduce call
C16_Witness ==
    /\ Len(MapRequests) = 3
    /\ Len(ReduceRequests) = 1
    /\ ReduceRequests[1].failed
    /\ Len(stderr) = 3
    /\ stderr[1] # stderr[2]
    /\ summary_json = <<JEmpty>>

(* C19: an ended summarize run that reached the transcription has written  *)
(* the three markers exactly when the transcript is non-empty; with an     *)
(* empty transcript returned without failure, summarize_transcript was not *)
(* entered, no marker and nothing on the error stream was written, and the *)
(* status is 0.                                                            *)
C19_MarkersIffTranscript ==
    (pc = "exited" /\ action = "summarize" /\ requests # <<>>) =>
        LET s == Stream
            none == /\ Count(s, MarkTranscript) = 0
                    /\ Count(s, MarkJsonStart) = 0
                    /\ Count(s, MarkJsonEnd) = 0
            all == /\ Count(s, MarkTranscript) = 1
                   /\ Count(s, MarkJsonStart) = 1
                   /\ Count(s, MarkJsonEnd) = 1
        IN /\ IF Truthy(transcript) THEN all ELSE none
           /\ (~requests[1].failed /\ transcript = <<>>) =>
                /\ MapRequests = <<>>
                /\ Count(s, DiagStarting) = 0
                /\ stderr = <<>>
                /\ exit_code = 0

\* the transcription succeeded with an empty text
C19_Witness ==
    /\ pc = "exited"
    /\ action = "summarize"
    /\ Len(requests) = 1
    /\ ~requests[1].failed
    /\ transcript = <<>>

-----------------------------------------------------------------------------
(* A record run on its own, with both threads scheduled: weak fairness of  *)
(* the ticker's steps and of the controlling thread's steps after the      *)
(* capture.  The capture itself may last for ever.                         *)

InitRecord ==
    /\ Init
    /\ argc_ok
    /\ api_key
    /\ action = "record"

NextRecord ==
    \/ MainRecord
    \/ RecInit
    \/ RecStartThread
    \/ RecAnnounce
    \/ RecCapture
    \/ RecSigterm
    \/ RecFinallySetFlag
    \/ RecJoin
    \/ RecFinish
    \/ TickerCheck
    \/ TickerWrite
    \/ TickerSleep
    \/ HandleStdout

SpecRecord ==
    /\ InitRecord
    /\ [][NextRecord]_vars
    /\ WF_vars(TickerCheck)
    /\ WF_vars(TickerWrite)
    /\ WF_vars(TickerSleep)
    /\ WF_vars(RecFinallySetFlag)
    /\ WF_vars(RecJoin)
    /\ WF_vars(RecFinish)

(* C17: once the capture has ended and control is in the finally block,    *)
(* the ticker thread terminates, the join returns and record_audio is      *)
(* left: eventually the process has ended with the thread done and joined. *)
C17_TickerStopsAndRecordReturns ==
    (pc = "rec_finally") ~> (pc = "exited" /\ ticker_pc = "done" /\ joined)

\* the run has ended after the ticker wrote twice
C17_Witness ==
    /\ pc = "exited"
    /\ joined
    /\ ticker_pc = "done"
    /\ ticks >= 2

(* C18: the flag changes only when the controlling thread raises it in the *)
(* finally block, and is never lowered again; the controlling thread has   *)
(* set it to false before it starts the thread; the thread is started once *)
(* and its steps leave the flag and the controlling thread alone; after    *)
(* the return the flag is set.                                             *)
C18_FlagSingleWriter ==
    /\ [][/\ stop_ticker_flag' # stop_ticker_flag =>
                (pc = "rec_finally" /\ pc' = "rec_join" /\ stop_ticker_flag'
                 /\ ticker_pc' = ticker_pc)
          /\ (pc = "rec_init" /\ pc' # pc) => ~stop_ticker_flag'
          /\ (ticker_pc = "not_started" /\ ticker_pc' # ticker_pc) =>
                (pc = "rec_start_thread" /\ ticker_pc' = "check" /\ ~stop_ticker_flag)
          /\ ticker_pc' = "not_started" => ticker_pc = "not_started"
          /\ (ticker_pc' # ticker_pc /\ ticker_pc # "not_started" /\ ticker_pc' # "killed") =>
                (stop_ticker_flag' = stop_ticker_flag /\ pc' = pc)
          /\ stop_ticker_flag => stop_ticker_flag'
         ]_vars
    /\ [](rec_returned => stop_ticker_flag)

\* the flag is raised while the ticker is in the middle of its loop
C18_Witness ==
    /\ stop_ticker_flag
    /\ ticker_pc = "write"
    /\ pc = "rec_join"

-----------------------------------------------------------------------------
(* The front end with the back end it spawns.  A click reaches its handler *)
(* only while the button is enabled.  A cancelled file dialog returns from *)
(* the handler with nothing changed and is left to stuttering.             *)

\* self.process.start("python", ["cli.py", a, filename]): a new back end,
\* unless one is running, in which case QProcess refuses the call
Spawn(a) ==
    IF proc_state = "Running"
    THEN /\ start_refused' = TRUE
         /\ UNCHANGED <<cliVars, delivered, err_delivered, proc_state, term_sent>>
    ELSE /\ proc_state' = "Running"
         /\ pc' = "main"
         /\ argc_ok' = TRUE
         /\ action' = a
         /\ transcript' = NoneVal
         /\ tokens' = <<>>
         /\ all_tokens' = <<>>
         /\ chunks' = <<>>
         /\ chunk_slices' = <<>>
         /\ i' = 1
         /\ chunk_summaries' = <<>>
         /\ summary_json' = NoneVal
         /\ requests' = <<>>
         /\ stdout' = <<>>
         /\ stderr' = <<>>
         /\ exit_code' = NoExit
         /\ stop_ticker_flag' = FALSE
         /\ ticker_pc' = "not_started"
         /\ ticks' = 0
         /\ joined' = FALSE
         /\ raising' = FALSE
         /\ rec_returned' = FALSE
         /\ delivered' = 0
         /\ err_delivered' = 0
         /\ term_sent' = FALSE
         /\ UNCHANGED <<api_key, budget, start_refused>>

\* start_recording, with a file name chosen
StartRecording ==
    /\ buttons.start
    /\ is_recording' = TRUE
    /\ transcript_edit' = <<>>
    /\ summary_edit' = <<>>
    /\ output_buffer' = <<>>
    /\ status_label' = StatusRecording
    /\ buttons' = UiState(TRUE, TRUE)
    /\ Spawn("record")

\* summarize_from_file, with a file chosen
SummarizeFromFile ==
    /\ buttons.summarize
    /\ is_recording' = FALSE
    /\ transcript_edit' = <<>>
    /\ summary_edit' = <<>>
    /\ output_buffer' = <<>>
    /\ status_label' = StatusSummarizing
    /\ buttons' = UiState(TRUE, FALSE)
    /\ Spawn("summarize")

\* stop_recording
StopRecording ==
    /\ buttons.stop
    /\ IF proc_state = "Running"
       THEN /\ term_sent' = TRUE
            /\ status_label' = StatusStopping
       ELSE UNCHANGED <<term_sent, status_label>>
    /\ UNCHANGED <<cliVars, delivered, output_buffer, transcript_edit,
                   summary_edit, err_delivered, proc_state, start_refused,
                   is_recording, buttons>>

\* the SIGTERM of process.terminate() reaches the back end, which has no
\* handler for it and ends wherever it is
ProcTerminated ==
    /\ term_sent
    /\ pc \notin {"not_spawned", "exited"}
    /\ pc' = "exited"
    /\ exit_code' = Killed
    /\ ticker_pc' = IF ticker_pc \in {"check", "write", "sleep"} THEN "killed" ELSE ticker_pc
    /\ UNCHANGED <<argc_ok, api_key, action, budget, transcript, sumVars,
                   requests, stdout, stderr, stop_ticker_flag, ticks, joined,
                   raising, rec_returned, guiVars>>

\* handle_stderr: some of the writes not yet read arrive
HandleStderr ==
    /\ err_delivered < Len(stderr)
    /\ \E n \in (err_delivered + 1)..Len(stderr) : err_delivered' = n
    /\ status_label' = StatusError
    /\ UNCHANGED <<cliVars, delivered, output_buffer, transcript_edit,
                   summary_edit, proc_state, term_sent, start_refused,
                   is_recording, buttons>>

\* process_finished: QProcess emits finished once the back end has ended and
\* what it wrote has been handed to the two read handlers
ProcessFinished ==
    /\ proc_state = "Running"
    /\ pc = "exited"
    /\ delivered = Len(stdout)
    /\ err_delivered = Len(stderr)
    /\ proc_state' = "NotRunning"
    /\ status_label' = StatusIdle
    /\ buttons' = UiState(FALSE, is_recording)
    /\ is_recording' = FALSE
    /\ UNCHANGED <<cliVars, delivered, output_buffer, transcript_edit,
                   summary_edit, err_delivered, term_sent, start_refused>>

\* MeetingSummarizer.__init__: no back end yet
InitGui ==
    /\ pc = "not_spawned"
    /\ argc_ok = TRUE
    /\ api_key \in BOOLEAN
    /\ action = "none"
    /\ budget = MaxBudget
    /\ transcript = NoneVal
    /\ tokens = <<>>
    /\ all_tokens = <<>>
    /\ chunks = <<>>
    /\ chunk_slices = <<>>
    /\ i = 1
    /\ chunk_summaries = <<>>
    /\ summary_json = NoneVal
    /\ requests = <<>>
    /\ stdout = <<>>
    /\ stderr = <<>>
    /\ exit_code = NoExit
    /\ stop_ticker_flag = FALSE
    /\ ticker_pc = "not_started"
    /\ ticks = 0
    /\ joined = FALSE
    /\ raising = FALSE
    /\ rec_returned = FALSE
    /\ delivered = 0
    /\ output_buffer = <<>>
    /\ transcript_edit = <<>>
    /\ summary_edit = <<>>
    /\ err_delivered = 0
    /\ proc_state = "NotRunning"
    /\ term_sent = FALSE
    /\ start_refused = FALSE
    /\ is_recording = FALSE
    /\ buttons = [start |-> TRUE, summarize |-> TRUE, stop |-> FALSE]
    /\ status_label = StatusIdle

NextGui ==
    \/ StartRecording
    \/ SummarizeFromFile
    \/ StopRecording
    \/ ProcTerminated
    \/ HandleStdout
    \/ HandleStderr
    \/ ProcessFinished
    \/ MainNoKey
    \/ MainRecord
    \/ MainSummarize
    \/ Transcribe
    \/ MainCheckTranscript
    \/ SummarizeStart
    \/ ChunkStep
    \/ ChunkDone
    \/ MapStep
    \/ ReduceShortCircuit
    \/ Reduce
    \/ EmitTranscript
    \/ EmitSummary
    \/ RecInit
    \/ RecStartThread
    \/ RecAnnounce
    \/ RecCapture
    \/ RecFinallySetFlag
    \/ RecJoin
    \/ RecFinish
    \/ TickerCheck
    \/ TickerWrite
    \/ TickerSleep

SpecGui == InitGui /\ [][NextGui]_vars

\* the back end exists and has not ended
BackendAlive == pc \notin {"not_spawned", "exited"}

(* C20: process.start() is never called while a back end is running, and a *)
(* living back end is the one the process object reports as running; while *)
(* it reports one, start and summarize are disabled; stop is enabled only  *)
(* while it reports a recording one; when it reports none (at first, and   *)
(* after every finished notification) the status is Idle, start and        *)
(* summarize are enabled and stop is not.                                  *)
C20_OneBackendAndButtons ==
    /\ ~start_refused
    /\ BackendAlive => proc_state = "Running"
    /\ proc_state = "Running" => (~buttons.start /\ ~buttons.summarize)
    /\ buttons.stop => (proc_state = "Running" /\ is_recording /\ action = "record")
    /\ proc_state = "NotRunning" =>
        /\ ~BackendAlive
        /\ status_label = StatusIdle
        /\ buttons.start
        /\ buttons.summarize
        /\ ~buttons.stop
        /\ ~is_recording

\* a recording was started, stopped, and its finished notification handled
C20_Witness ==
    /\ proc_state = "NotRunning"
    /\ action = "record"
    /\ exit_code = Killed
    /\ term_sent
    /\ buttons.start
    /\ status_label = StatusIdle

====
